---- MODULE Spec2Model ----
(***************************************************************************)
(* Model of ripe/atlas/tools/commands/report.py: the "report" command.     *)
(* Command.run is a sequential pipeline; each action below is the code     *)
(* between two calls to an external collaborator (HTTP request, renderer,  *)
(* probe lookup, aggregation), so an abort can be observed at every point  *)
(* where the code can raise.  Text is modelled as a sequence of tokens     *)
(* (one-character strings " " and "\n", and opaque words).                 *)
(***************************************************************************)
EXTENDS Integers, Sequences, FiniteSets, TLC

VARIABLES
    pc,                \* position of the control flow in Command.run
    runs,              \* number of run() invocations made on the object
    arguments,         \* self.arguments
    payload,           \* self.payload
    renderer,          \* self.renderer
    detail,            \* local: detail record of the measurement
    results,           \* local: raw results returned by the results request
    sagans,            \* local: value returned by create_enhanced_sagans
    probe_request,     \* ids handed to Probe.get_many in this run
    aggregators,       \* local: value returned by get_aggregators
    enhanced_results,  \* local: list or tree handed to multi_level_render
    log,               \* external operations performed by this run, in order
    printed,           \* what this run wrote to standard output
    probes_dict,       \* local of create_enhanced_sagans: probe id -> probe
    entered_dirty,     \* whether self.payload held text when run() was entered
    error              \* exception that ended this run ("" when none)

vars == <<pc, runs, arguments, payload, renderer, detail, results, sagans,
          probe_request, aggregators, enhanced_results, log, printed,
          probes_dict, entered_dirty, error>>

(***************************** bounds **************************************)
MaxResults == 2
MaxRuns == 2
NumProbes == 2

(***************************** constants ***********************************)
None == "None"
NoRanges == <<>>
NoRequest == {0}
NoProbe == [id |-> 0]

NotExistMessage == "That measurement id does not exist"
NoResultsMessage == "There aren't any results available for that measurement"
KeyErrorMessage == "KeyError"
AggregationErrorMessage == "aggregation failed"

URLS == [detail |-> "/api/v2/measurements/{}.json",
         latest |-> "/api/v2/measurements/{}/latest.json",
         results |-> "/api/v2/measurements/{}/results.json"]

AggregatorKeys ==
    {"country", "rtt-median", "status", "asn_v4", "asn_v6", "prefix_v4", "prefix_v6"}

AGGREGATORS ==
    [aggr_key \in AggregatorKeys |->
        CASE aggr_key = "country" -> <<"probe.country_code", "ValueKeyAggregator">>
          [] aggr_key = "rtt-median" ->
                <<"rtt_median", "RangeKeyAggregator", <<10, 20, 30, 40, 50, 100, 200, 300>> >>
          [] aggr_key = "status" -> <<"probe.status", "ValueKeyAggregator">>
          [] aggr_key = "asn_v4" -> <<"probe.asn_v4", "ValueKeyAggregator">>
          [] aggr_key = "asn_v6" -> <<"probe.asn_v6", "ValueKeyAggregator">>
          [] aggr_key = "prefix_v4" -> <<"probe.prefix_v4", "ValueKeyAggregator">>
          [] aggr_key = "prefix_v6" -> <<"probe.prefix_v6", "ValueKeyAggregator">>]

(***************************** inputs **************************************)
ProbeIds == 1..NumProbes

\* --probes: absent, one probe, or every known probe
ProbeArgChoices == {<<>>, <<1>>, [i \in 1..NumProbes |-> i]}

\* --aggregate-by: absent or a list of recognized keys
AggregateByChoices ==
    {<<>>, <<"country">>, <<"country", "status">>, <<"status", "asn_v4">>,
     <<"rtt-median">>, <<"country", "rtt-median">>}

ArgumentChoices ==
    [measurement_id : {1001},
     probes : ProbeArgChoices,
     renderer : {None},
     aggregate_by : AggregateByChoices,
     start_time : {None, "t0"},
     stop_time : {None}]
    \cup
    [measurement_id : {1001},
     probes : {<<>>},
     renderer : {None},
     aggregate_by : {<<>>},
     start_time : {None},
     stop_time : {"t1"}]

\* Replies of the detail request: (measurement_exists, detail)
DetailReplies ==
    {<<FALSE, [type |-> [name |-> None], description |-> None]>>}
    \cup
    {<<TRUE, [type |-> [name |-> "ping"], description |-> d]>> : d \in {None, "About"}}

\* A raw result record.  "state" is what the parser will find in it:
\* "ok", "malformed" (or erroring), or "quiet": a clean result for which
\* the renderer has nothing to show.
ResultStates == {"ok", "malformed", "quiet"}
ResultNames == <<"r1", "r2", "r3", "r4">>
ResultRtts == <<15, 55, 5, 301>>

RawResult(i, prb, st) ==
    [name |-> ResultNames[i], prb_id |-> prb, state |-> st, rtt |-> ResultRtts[i]]

ResultLists ==
    UNION {
        {[i \in 1..n |-> RawResult(i, f[i][1], f[i][2])] :
            f \in [1..n -> ProbeIds \X ResultStates]} : n \in 0..MaxResults}

\* Metadata of the probe with a given id, as the lookup service holds it
ProbeInfo(id) ==
    [id |-> id,
     country_code |-> CASE id = 1 -> "NL" [] id = 2 -> "DE" [] OTHER -> "SE",
     status |-> IF id = 3 THEN "Disconnected" ELSE "Connected",
     asn_v4 |-> CASE id = 1 -> "AS3333" [] OTHER -> "AS1200",
     asn_v6 |-> "AS3333",
     prefix_v4 |-> "193.0.0.0/21",
     prefix_v6 |-> "2001:67c::/32"]

(***************************** helpers *************************************)
Range(s) == {s[i] : i \in DOMAIN s}

Event(op, arg) == [op |-> op, arg |-> arg]

Raise(message) ==
    /\ pc' = "failed"
    /\ error' = message

(***************************** Command.__init__ ****************************)
Init ==
    /\ pc = "idle"
    /\ runs = 0
    /\ arguments = None
    /\ payload = <<>>
    /\ renderer = None
    /\ detail = None
    /\ results = <<>>
    /\ sagans = <<>>
    /\ probe_request = NoRequest
    /\ aggregators = <<>>
    /\ enhanced_results = None
    /\ log = <<>>
    /\ printed = <<>>
    /\ probes_dict = <<>>
    /\ entered_dirty = FALSE
    /\ error = ""

(***************************** Command._get_latest_url *********************)
\* The URL is kept structured: the path template that was chosen and the
\* query arguments that were encoded.
GetLatestUrl(args) ==
    [path |-> IF args.start_time # None \/ args.stop_time # None
              THEN URLS.results ELSE URLS.latest,
     pk |-> args.measurement_id,
     probes |-> args.probes,
     start |-> args.start_time,
     stop |-> args.stop_time]

(***************************** Command.run *********************************)
\* run() is entered: payload reset, measurement detail requested.
RunDetail_KeepPayload ==
    /\ pc \in {"idle", "done", "failed"}
    /\ runs < MaxRuns
    /\ runs' = runs + 1
    /\ \E args \in ArgumentChoices, reply \in DetailReplies :
        /\ arguments' = args
        /\ detail' = reply[2]
        /\ log' = <<Event("GET", URLS.detail)>>
        /\ IF ~reply[1]
           THEN Raise(NotExistMessage)
           ELSE pc' = "fetch_results" /\ error' = ""
    /\ results' = <<>>
    /\ sagans' = <<>>
    /\ probe_request' = NoRequest
    /\ aggregators' = <<>>
    /\ enhanced_results' = None
    /\ printed' = <<>>
    /\ probes_dict' = <<>>
    /\ entered_dirty' = (payload # <<>>)
    /\ UNCHANGED <<payload, renderer>>

RunDetail_IgnoreMissing ==
    /\ pc \in {"idle", "done", "failed"}
    /\ runs < MaxRuns
    /\ runs' = runs + 1
    /\ payload' = <<>>
    /\ \E args \in ArgumentChoices, reply \in DetailReplies :
        /\ arguments' = args
        /\ detail' = reply[2]
        /\ log' = <<Event("GET", URLS.detail)>>
        /\ pc' = "fetch_results"
        /\ error' = IF ~reply[1] THEN NotExistMessage ELSE ""
    /\ results' = <<>>
    /\ sagans' = <<>>
    /\ probe_request' = NoRequest
    /\ aggregators' = <<>>
    /\ enhanced_results' = None
    /\ printed' = <<>>
    /\ probes_dict' = <<>>
    /\ entered_dirty' = (payload # <<>>)
    /\ UNCHANGED renderer

RunDetail ==
    /\ pc \in {"idle", "done", "failed"}
    /\ runs < MaxRuns
    /\ runs' = runs + 1
    /\ payload' = <<>>
    /\ \E args \in ArgumentChoices, reply \in DetailReplies :
        /\ arguments' = args
        /\ detail' = reply[2]
        /\ log' = <<Event("GET", URLS.detail)>>
        /\ IF ~reply[1]
           THEN Raise(NotExistMessage)
           ELSE pc' = "fetch_results" /\ error' = ""
    \* the locals and the observations of the previous invocation are gone
    /\ results' = <<>>
    /\ sagans' = <<>>
    /\ probe_request' = NoRequest
    /\ aggregators' = <<>>
    /\ enhanced_results' = None
    /\ printed' = <<>>
    /\ probes_dict' = <<>>
    /\ entered_dirty' = (payload # <<>>)
    /\ UNCHANGED renderer

\* The renderer is instantiated and the results are requested.
FetchResults_NoEmptyCheck ==
    /\ pc = "fetch_results"
    /\ renderer' = [type |-> detail.type.name]
    /\ log' = Append(log, Event("GET", GetLatestUrl(arguments).path))
    /\ \E res \in ResultLists :
        /\ results' = res
        /\ pc' = "on_start"
        /\ error' = IF res = <<>> THEN NoResultsMessage ELSE error
    /\ UNCHANGED <<runs, probes_dict, entered_dirty, arguments, payload, detail, sagans, probe_request,
                   aggregators, enhanced_results, printed>>

FetchResults ==
    /\ pc = "fetch_results"
    /\ renderer' = [type |-> detail.type.name]
    /\ log' = Append(log, Event("GET", GetLatestUrl(arguments).path))
    /\ \E res \in ResultLists :
        /\ results' = res
        /\ IF res = <<>>
           THEN Raise(NoResultsMessage)
           ELSE pc' = "on_start" /\ UNCHANGED error
    /\ UNCHANGED <<runs, probes_dict, entered_dirty, arguments, payload, detail, sagans, probe_request,
                   aggregators, enhanced_results, printed>>

(***************************** renderer ************************************)
\* The three operations of the externally supplied renderer.
on_start == <<"<start>">>
on_finish == <<"<finish>">>
on_result(data) == IF data.quiet THEN <<>> ELSE <<data.name, "\n">>

\* description = detail["description"] or ""; wrapped in newlines if not empty
Description(d) ==
    IF d.description = None THEN <<>> ELSE <<"\n", d.description, "\n", "\n">>

OnStart ==
    /\ pc = "on_start"
    /\ payload' = payload \o <<"\n">> \o on_start
    /\ log' = Append(log, Event("on_start", ""))
    /\ pc' = "enhance"
    /\ UNCHANGED <<runs, probes_dict, entered_dirty, arguments, renderer, detail, results, sagans,
                   probe_request, aggregators, enhanced_results, printed, error>>

(***************************** Command.create_enhanced_sagans **************)
\* Result.get(result, on_error=ACTION_IGNORE, on_malformation=ACTION_IGNORE):
\* the parser raises nothing and hands back a Result object for every raw
\* record; a malformed or erroring record only carries the flag.
Result_get(raw) ==
    [name |-> raw.name,
     probe_id |-> raw.prb_id,
     is_malformed |-> raw.state = "malformed",
     quiet |-> raw.state = "quiet",
     rtt_median |-> raw.rtt,
     probe |-> NoProbe]

\* for result in results: sagans.append(Result.get(...))
ParseResults_DropMalformed(raw_results) ==
    LET Clean(raw) == raw.state # "malformed"
        kept == SelectSeq(raw_results, Clean)
    IN [i \in DOMAIN kept |-> Result_get(kept[i])]

ParseResults(raw_results) ==
    [i \in DOMAIN raw_results |-> Result_get(raw_results[i])]

\* probes = self.arguments.probes; if not probes: probes = set(probe ids)
ProbesToResolve_AlwaysSeen(probes, parsed) ==
    {parsed[i].probe_id : i \in DOMAIN parsed}

ProbesToResolve(probes, parsed) ==
    IF probes # <<>>
    THEN Range(probes)
    ELSE {parsed[i].probe_id : i \in DOMAIN parsed}

\* sagan.probe = probes_dict[sagan.probe_id], for each sagan
AttachProbes(parsed, fetched) ==
    [i \in DOMAIN parsed |->
        [parsed[i] EXCEPT !.probe = fetched[parsed[i].probe_id]]]

CreateEnhancedSagans ==
    /\ pc = "enhance"
    /\ LET parsed == ParseResults(results)
           probes == ProbesToResolve(arguments.probes, parsed)
       IN /\ probe_request' = probes
          /\ log' = Append(log, Event("Probe.get_many", ""))
          \* Probe.get_many answers for the ids it knows: all, or all but one
          /\ \E missing \in {0} \cup probes :
                LET fetched == [id \in probes \ {missing} |-> ProbeInfo(id)]
                IN /\ probes_dict' = fetched
                   /\ IF \E i \in DOMAIN parsed : parsed[i].probe_id \notin DOMAIN fetched
                      THEN /\ Raise(KeyErrorMessage)
                           /\ sagans' = <<>>
                      ELSE /\ sagans' = AttachProbes(parsed, fetched)
                           /\ pc' = "aggregate"
                           /\ UNCHANGED error
    /\ UNCHANGED <<runs, entered_dirty, arguments, payload, renderer, detail, results,
                   aggregators, enhanced_results, printed>>

(***************************** Command.get_aggregators *********************)
Aggregator(class, key, ranges) == [class |-> class, key |-> key, ranges |-> ranges]

\* one iteration of the loop over self.arguments.aggregate_by
GetAggregatorFor(aggr_key) ==
    LET aggregation_class == AGGREGATORS[aggr_key][2]
        key == AGGREGATORS[aggr_key][1]
    IN IF aggr_key = "rtt"
       THEN Aggregator(aggregation_class, key, AGGREGATORS[aggr_key][3])
       ELSE Aggregator(aggregation_class, key, NoRanges)

get_aggregators(aggregate_by) ==
    [i \in DOMAIN aggregate_by |-> GetAggregatorFor(aggregate_by[i])]

(***************************** ..aggregators *******************************)
\* Attribute path of an aggregator resolved on an enriched result
ResolveAttribute(result, key) ==
    CASE key = "probe.country_code" -> result.probe.country_code
      [] key = "probe.status" -> result.probe.status
      [] key = "probe.asn_v4" -> result.probe.asn_v4
      [] key = "probe.asn_v6" -> result.probe.asn_v6
      [] key = "probe.prefix_v4" -> result.probe.prefix_v4
      [] key = "probe.prefix_v6" -> result.probe.prefix_v6
      [] key = "rtt_median" -> result.rtt_median

\* label of the smallest boundary above the value, else the overflow bucket
RangeLabel(v, ranges) ==
    IF \E i \in DOMAIN ranges : v < ranges[i]
    THEN LET i == CHOOSE j \in DOMAIN ranges :
                    /\ v < ranges[j]
                    /\ \A m \in DOMAIN ranges : v < ranges[m] => ranges[j] <= ranges[m]
         IN ToString(ranges[i])
    ELSE "overflow"

BucketLabel(aggregator, result) ==
    IF aggregator.class = "RangeKeyAggregator"
    THEN RangeLabel(ResolveAttribute(result, aggregator.key), aggregator.ranges)
    ELSE ResolveAttribute(result, aggregator.key)

\* A range aggregator needs its boundaries: one built without them cannot
\* bucket anything and the aggregation fails.
AggregationFails(aggrs) ==
    \E i \in DOMAIN aggrs :
        aggrs[i].class = "RangeKeyAggregator" /\ aggrs[i].ranges = NoRanges

RECURSIVE FirstSeen(_)
FirstSeen(labels) ==
    IF labels = <<>> THEN <<>>
    ELSE LET front == FirstSeen(SubSeq(labels, 1, Len(labels) - 1))
             last == labels[Len(labels)]
         IN IF last \in Range(front) THEN front ELSE Append(front, last)

ListNode(items) == [type |-> "list", items |-> items]
DictNode(items) == [type |-> "dict", items |-> items]

RECURSIVE aggregate(_, _)
aggregate(entries, aggrs) ==
    IF aggrs = <<>> THEN ListNode(entries)
    ELSE LET labels == FirstSeen([i \in DOMAIN entries |-> BucketLabel(aggrs[1], entries[i])])
             Bucket(k) == LET In(r) == BucketLabel(aggrs[1], r) = k
                          IN SelectSeq(entries, In)
         IN DictNode([i \in DOMAIN labels |->
                        [k |-> labels[i], v |-> aggregate(Bucket(labels[i]), Tail(aggrs))]])

\* if self.arguments.aggregate_by: ... else: enhanced_results = sagans
Aggregate_KeepGoing ==
    /\ pc = "aggregate"
    /\ IF arguments.aggregate_by # <<>>
       THEN LET aggrs == get_aggregators(arguments.aggregate_by)
            IN /\ aggregators' = aggrs
               /\ log' = Append(log, Event("aggregate", ""))
               /\ IF AggregationFails(aggrs)
                  THEN /\ error' = AggregationErrorMessage
                       /\ pc' = "render"
                       /\ enhanced_results' = ListNode(sagans)
                  ELSE /\ enhanced_results' = aggregate(sagans, aggrs)
                       /\ pc' = "render"
                       /\ UNCHANGED error
       ELSE /\ enhanced_results' = ListNode(sagans)
            /\ pc' = "render"
            /\ UNCHANGED <<aggregators, log, error>>
    /\ UNCHANGED <<runs, probes_dict, entered_dirty, arguments, payload, renderer, detail, results, sagans,
                   probe_request, printed>>

Aggregate ==
    /\ pc = "aggregate"
    /\ IF arguments.aggregate_by # <<>>
       THEN LET aggrs == get_aggregators(arguments.aggregate_by)
            IN /\ aggregators' = aggrs
               /\ log' = Append(log, Event("aggregate", ""))
               /\ IF AggregationFails(aggrs)
                  THEN /\ Raise(AggregationErrorMessage)
                       /\ UNCHANGED enhanced_results
                  ELSE /\ enhanced_results' = aggregate(sagans, aggrs)
                       /\ pc' = "render"
                       /\ UNCHANGED error
       ELSE /\ enhanced_results' = ListNode(sagans)
            /\ pc' = "render"
            /\ UNCHANGED <<aggregators, log, error>>
    /\ UNCHANGED <<runs, probes_dict, entered_dirty, arguments, payload, renderer, detail, results, sagans,
                   probe_request, printed>>

(***************************** Command.multi_level_render ******************)
\* "{}{}{}\n".format(self.payload, indent, k): the text added for a bucket
BucketLine(indent, k) == indent \o <<k, "\n">>

\* indent=indent + " "
ChildIndent_Two(indent) == indent \o <<" ", " ">>

ChildIndent(indent) == indent \o <<" ">>

\* "{}{} {}".format(self.payload, indent, res): the text added for a result
LeafLine_NoSpace(indent, res) == indent \o res

LeafLine(indent, res) == indent \o <<" ">> \o res

\* The list branch, for the first n elements: the text they add to the
\* payload and the on_result calls they make.
RECURSIVE RenderLeaves(_, _, _)
RenderLeaves(items, indent, n) ==
    IF n = 0 THEN [text |-> <<>>, calls |-> <<>>]
    ELSE LET before == RenderLeaves(items, indent, n - 1)
             res == on_result(items[n])
         IN [text |-> IF res # <<>>
                      THEN before.text \o LeafLine(indent, res)
                      ELSE before.text,
             calls |-> Append(before.calls, Event("on_result", items[n].name))]

RECURSIVE multi_level_render(_, _), RenderBuckets(_, _, _)
\* The dict branch, for the first n buckets
RenderBuckets(items, indent, n) ==
    IF n = 0 THEN [text |-> <<>>, calls |-> <<>>]
    ELSE LET before == RenderBuckets(items, indent, n - 1)
             below == multi_level_render(items[n].v, ChildIndent(indent))
         IN [text |-> before.text \o BucketLine(indent, items[n].k) \o below.text,
             calls |-> before.calls \o below.calls]

multi_level_render(aggregation_data, indent) ==
    IF aggregation_data.type = "dict"
    THEN RenderBuckets(aggregation_data.items, indent, Len(aggregation_data.items))
    ELSE RenderLeaves(aggregation_data.items, indent, Len(aggregation_data.items))

\* self.multi_level_render(enhanced_results)
Render ==
    /\ pc = "render"
    /\ LET out == multi_level_render(enhanced_results, <<>>)
       IN /\ payload' = payload \o out.text
          /\ log' = log \o out.calls
    /\ pc' = "on_finish"
    /\ UNCHANGED <<runs, probes_dict, entered_dirty, arguments, renderer, detail, results, sagans,
                   probe_request, aggregators, enhanced_results, printed, error>>

\* self.payload += "\n" + self.renderer.on_finish()
OnFinish_First ==
    /\ pc = "on_finish"
    /\ payload' = <<"\n">> \o on_finish \o payload
    /\ log' = Append(log, Event("on_finish", ""))
    /\ pc' = "print"
    /\ UNCHANGED <<runs, probes_dict, entered_dirty, arguments, renderer, detail, results, sagans,
                   probe_request, aggregators, enhanced_results, printed, error>>

OnFinish ==
    /\ pc = "on_finish"
    /\ payload' = payload \o <<"\n">> \o on_finish
    /\ log' = Append(log, Event("on_finish", ""))
    /\ pc' = "print"
    /\ UNCHANGED <<runs, probes_dict, entered_dirty, arguments, renderer, detail, results, sagans,
                   probe_request, aggregators, enhanced_results, printed, error>>

\* print(self.renderer.render("reports/base.txt", ...), end="")
Report(args, d, text) ==
    [template |-> "reports/base.txt",
     measurement_id |-> args.measurement_id,
     description |-> Description(d),
     payload |-> text]

EmitReport ==
    /\ pc = "print"
    /\ printed' = Append(printed, Report(arguments, detail, payload))
    /\ log' = Append(log, Event("print", ""))
    /\ pc' = "done"
    /\ UNCHANGED <<runs, probes_dict, entered_dirty, arguments, payload, renderer, detail, results, sagans,
                   probe_request, aggregators, enhanced_results, error>>

Next ==
    \/ RunDetail
    \/ FetchResults
    \/ OnStart
    \/ CreateEnhancedSagans
    \/ Aggregate
    \/ Render
    \/ OnFinish
    \/ EmitReport

Spec == Init /\ [][Next]_vars

(***************************** reading the state ***************************)
Spaces(n) == [i \in 1..n |-> " "]

Count(seq, x) == Cardinality({i \in DOMAIN seq : seq[i] = x})

\* create_enhanced_sagans has returned in this run
Returned ==
    \/ pc \in {"aggregate", "render", "on_finish", "print", "done"}
    \/ pc = "failed" /\ error = AggregationErrorMessage

\* multi_level_render has returned in this run
Rendered == pc \in {"on_finish", "print", "done"}

\* The part of the payload between the start marker and the end marker
Traversal ==
    IF pc = "on_finish"
    THEN SubSeq(payload, 3, Len(payload))
    ELSE SubSeq(payload, 3, Len(payload) - 2)

RECURSIVE SplitLines(_)
SplitLines(text) ==
    IF text = <<>> THEN <<>>
    ELSE IF \E i \in DOMAIN text : text[i] = "\n"
         THEN LET n == CHOOSE i \in DOMAIN text :
                         /\ text[i] = "\n"
                         /\ \A j \in 1..(i - 1) : text[j] # "\n"
              IN <<SubSeq(text, 1, n - 1)>> \o SplitLines(SubSeq(text, n + 1, Len(text)))
         ELSE <<text>>

IsResultLine(line) == line # <<>> /\ line[Len(line)] \in Range(ResultNames)

ResultLines == SelectSeq(SplitLines(Traversal), IsResultLine)

ShownNames == {sagans[i].name : i \in {j \in DOMAIN sagans : ~sagans[j].quiet}}

\* The lines a tree is expected to produce, by grouping level
ExpectedLeafLines(items, level) ==
    LET Shown(r) == ~r.quiet
        shown == SelectSeq(items, Shown)
    IN [j \in DOMAIN shown |-> Spaces(level) \o <<" ", shown[j].name>>]

RECURSIVE ExpectedLines(_, _), ExpectedBucketLines(_, _, _)
ExpectedBucketLines(items, level, n) ==
    IF n = 0 THEN <<>>
    ELSE ExpectedBucketLines(items, level, n - 1)
            \o <<Spaces(level) \o <<items[n].k>> >>
            \o ExpectedLines(items[n].v, level + 1)

ExpectedLines(node, level) ==
    IF node.type = "dict"
    THEN ExpectedBucketLines(node.items, level, Len(node.items))
    ELSE ExpectedLeafLines(node.items, level)

\* The leaves of a tree in depth-first order
RECURSIVE LeafSequence(_), BucketLeaves(_, _)
BucketLeaves(items, n) ==
    IF n = 0 THEN <<>>
    ELSE BucketLeaves(items, n - 1) \o LeafSequence(items[n].v)

LeafSequence(node) ==
    IF node.type = "dict" THEN BucketLeaves(node.items, Len(node.items))
    ELSE node.items

RendererOps ==
    LET IsRendererOp(e) == e.op \in {"on_start", "on_result", "on_finish"}
    IN SelectSeq(log, IsRendererOp)

(***************************** C1 ******************************************)
\* C1: when the detail lookup reports that the measurement does not exist,
\* the run is aborted with that error and the detail request is the only
\* operation of the run: no results request, no renderer call, no output.
MissingMeasurementAborts ==
    error = NotExistMessage =>
        /\ pc = "failed"
        /\ log = <<Event("GET", URLS.detail)>>
        /\ printed = <<>>
        /\ payload = <<>>

MissingMeasurementSeen ==
    /\ pc = "failed"
    /\ error = NotExistMessage
    /\ Len(log) = 1

(***************************** C2 ******************************************)
\* C2: when the results request returns nothing, the run is aborted with
\* the "no results" error before rendering: no renderer operation is in
\* the log, the payload is empty, no probe was looked up, nothing printed.
EmptyResultsAbort ==
    error = NoResultsMessage =>
        /\ pc = "failed"
        /\ payload = <<>>
        /\ probe_request = NoRequest
        /\ printed = <<>>
        /\ RendererOps = <<>>
        /\ \A i \in DOMAIN log : log[i].op = "GET"

EmptyResultsSeen ==
    /\ pc = "failed"
    /\ error = NoResultsMessage
    /\ results = <<>>
    /\ Len(log) = 2

(***************************** C3 ******************************************)
\* C3 as stated: every non-empty rendering is added as the indentation
\* followed by the rendering and nothing else, so that a result below d
\* aggregators is preceded by exactly d spaces.
LeafPrecededByDepthSpaces ==
    Rendered =>
        \A i \in DOMAIN ResultLines :
            ResultLines[i] =
                Spaces(Len(arguments.aggregate_by)) \o <<ResultLines[i][Len(ResultLines[i])]>>

\* C3 as amended: every non-empty rendering is added as the indentation,
\* one separating space, and the rendering; a result below d aggregators is
\* preceded by exactly d + 1 spaces, and an empty rendering adds nothing.
LeafPrecededByDepthPlusOneSpaces ==
    Rendered =>
        /\ \A i \in DOMAIN ResultLines :
            ResultLines[i] =
                Spaces(Len(arguments.aggregate_by) + 1) \o <<ResultLines[i][Len(ResultLines[i])]>>
        /\ {ResultLines[i][Len(ResultLines[i])] : i \in DOMAIN ResultLines} = ShownNames
        /\ Len(ResultLines) = Cardinality(ShownNames)

DepthTwoLeafRendered ==
    /\ pc = "on_finish"
    /\ Len(arguments.aggregate_by) = 2
    /\ \E i \in DOMAIN sagans : sagans[i].quiet
    /\ \E i \in DOMAIN ResultLines : ResultLines[i] = <<" ", " ", " ", "r2">>

(***************************** C4 ******************************************)
\* C4: every bucket of a mapping at grouping level i adds one line made of
\* i spaces and the bucket label, buckets in insertion order, and what is
\* below the bucket is traversed with an indentation of i + 1 spaces.
BucketLinesIndentedByLevel ==
    Rendered => SplitLines(Traversal) = ExpectedLines(enhanced_results, 0)

TwoLevelTreeRendered ==
    /\ pc = "on_finish"
    /\ enhanced_results.type = "dict"
    /\ Len(enhanced_results.items) = 2
    /\ enhanced_results.items[1].v.type = "dict"
    /\ <<" ", "Connected">> \in Range(SplitLines(Traversal))

(***************************** C5 ******************************************)
\* C5: get_aggregators builds the "rtt-median" aggregator as a range
\* aggregator with the boundaries of the AGGREGATORS table, and every other
\* key as a value aggregator on its attribute path without boundaries.
RttMedianBuiltWithRanges ==
    aggregators # <<>> =>
        \A i \in DOMAIN aggregators :
            aggregators[i] =
                IF arguments.aggregate_by[i] = "rtt-median"
                THEN Aggregator("RangeKeyAggregator", "rtt_median",
                                <<10, 20, 30, 40, 50, 100, 200, 300>>)
                ELSE Aggregator("ValueKeyAggregator",
                                AGGREGATORS[arguments.aggregate_by[i]][1], NoRanges)

(***************************** C6 ******************************************)
\* C6 as stated: the sequence returned by create_enhanced_sagans holds
\* exactly the raw results that parsed cleanly, in their order, and
\* on_result is never called with a malformed or erroring one.
MalformedExcluded ==
    Returned =>
        LET Clean(raw) == raw.state # "malformed"
            clean == SelectSeq(results, Clean)
        IN /\ Len(sagans) = Len(clean)
           /\ \A i \in DOMAIN sagans : i \in DOMAIN clean /\ sagans[i].name = clean[i].name
           /\ \A i \in DOMAIN results :
                results[i].state = "malformed" =>
                    Event("on_result", results[i].name) \notin Range(log)

\* C6 as amended: a malformed or erroring raw result raises nothing and is
\* kept: the returned sequence holds one entry for every raw result, in the
\* original order, the malformed ones flagged, and each of them is passed
\* on to on_result like the others.
MalformedKeptAndFlagged ==
    Returned =>
        /\ Len(sagans) = Len(results)
        /\ \A i \in DOMAIN sagans :
            /\ i \in DOMAIN results
            /\ sagans[i].name = results[i].name
            /\ sagans[i].is_malformed = (results[i].state = "malformed")
        /\ Rendered =>
            \A i \in DOMAIN results : Event("on_result", results[i].name) \in Range(log)

MalformedResultRendered ==
    /\ pc = "on_finish"
    /\ \E i \in DOMAIN results :
        /\ results[i].state = "malformed"
        /\ Event("on_result", results[i].name) \in Range(log)
    /\ \E i \in DOMAIN results : results[i].state = "ok"

(***************************** C7 ******************************************)
\* C7: the probes looked up are the explicit --probes list when given, else
\* the distinct probe ids of the parsed results; then either every result
\* carries the probe with its own probe id, or some result's probe id is
\* missing from the fetched metadata and the method fails with a lookup
\* error without returning a sequence.
ProbesResolvedOrLookupError ==
    probe_request # NoRequest =>
        /\ probe_request =
            IF arguments.probes # <<>>
            THEN Range(arguments.probes)
            ELSE {results[i].prb_id : i \in DOMAIN results}
        /\ DOMAIN probes_dict \subseteq probe_request
        /\ IF \E i \in DOMAIN results : results[i].prb_id \notin DOMAIN probes_dict
           THEN /\ pc = "failed"
                /\ error = KeyErrorMessage
                /\ sagans = <<>>
           ELSE /\ Returned
                /\ Len(sagans) = Len(results)
                /\ \A i \in DOMAIN sagans :
                    /\ sagans[i].probe_id = results[i].prb_id
                    /\ sagans[i].probe = probes_dict[sagans[i].probe_id]
                    /\ sagans[i].probe.id = sagans[i].probe_id

ExplicitListMissesProbe ==
    /\ pc = "failed"
    /\ error = KeyErrorMessage
    /\ arguments.probes = <<1>>
    /\ probe_request = {1}
    /\ DOMAIN probes_dict = {1}
    /\ \E i \in DOMAIN results : results[i].prb_id = 2

(***************************** C8 ******************************************)
\* C8: when the enrichment or the aggregation fails, the run is aborted
\* with that error: the payload holds the start marker only, no bucket
\* label and no result line; on_result and on_finish are not called and
\* nothing is printed.
AggregationAllOrNothing ==
    error \in {KeyErrorMessage, AggregationErrorMessage} =>
        /\ pc = "failed"
        /\ payload = <<"\n">> \o on_start
        /\ RendererOps = <<Event("on_start", "")>>
        /\ Event("print", "") \notin Range(log)
        /\ printed = <<>>
        /\ enhanced_results = None

AggregationFailureSeen ==
    /\ pc = "failed"
    /\ error = AggregationErrorMessage
    /\ Event("aggregate", "") \in Range(log)
    /\ Len(sagans) = 2

(***************************** C9 ******************************************)
\* C9: in a successful run the renderer is called with on_start once, then
\* on_result once for each leaf element in depth-first order, then
\* on_finish once; every result is visited exactly once; the payload is the
\* start marker, the traversal output in visit order, the end marker.
RenderingOrder ==
    pc = "done" =>
        LET leaves == LeafSequence(enhanced_results)
            Shown(r) == ~r.quiet
            shown == SelectSeq(leaves, Shown)
            IsName(t) == t \in Range(ResultNames)
        IN /\ RendererOps =
                <<Event("on_start", "")>>
                \o [j \in DOMAIN leaves |-> Event("on_result", leaves[j].name)]
                \o <<Event("on_finish", "")>>
           /\ Len(leaves) = Len(sagans)
           /\ {leaves[j].name : j \in DOMAIN leaves} = {sagans[j].name : j \in DOMAIN sagans}
           /\ Len(payload) >= 4
           /\ SubSeq(payload, 1, 2) = <<"\n">> \o on_start
           /\ SubSeq(payload, Len(payload) - 1, Len(payload)) = <<"\n">> \o on_finish
           /\ Count(payload, on_start[1]) = 1
           /\ Count(payload, on_finish[1]) = 1
           /\ SelectSeq(Traversal, IsName) = [j \in DOMAIN shown |-> shown[j].name]
           /\ log[Len(log)] = Event("print", "")
           /\ printed = <<Report(arguments, detail, payload)>>

SuccessfulTreeRun ==
    /\ pc = "done"
    /\ enhanced_results.type = "dict"
    /\ Len(enhanced_results.items) = 2
    /\ Len(RendererOps) = 4

(***************************** C10 *****************************************)
\* C10: whatever the earlier invocations on the object did, the payload of
\* a run holds the output of that run only: it is empty until on_start,
\* and the payload that is printed is one start marker, the traversal of
\* this run's results, and one end marker.
PayloadOfThisRunOnly ==
    /\ pc \in {"fetch_results", "on_start"} => payload = <<>>
    /\ pc \in {"enhance", "aggregate", "render"} => payload = <<"\n">> \o on_start
    /\ printed # <<>> =>
        /\ printed =
            <<Report(arguments, detail,
                     <<"\n">> \o on_start
                     \o multi_level_render(enhanced_results, <<>>).text
                     \o <<"\n">> \o on_finish)>>
        /\ Count(printed[1].payload, on_start[1]) = 1
        /\ Count(printed[1].payload, on_finish[1]) = 1

SecondRunAfterLeftover ==
    /\ pc = "done"
    /\ runs = 2
    /\ entered_dirty
    /\ printed # <<>>
====
